---- MODULE Spec2Model ----
(***************************************************************************)
(* Model of the ingestion-to-insight pipeline:                             *)
(*   services/scraper/scraper.py     store_product  (the fetcher)          *)
(*   services/processor/processor.py process_batch  (the processor)        *)
(* The three MongoDB collections (raw, processed, insights) are sequences  *)
(* of documents in natural (insertion) order.  The scraper and the         *)
(* processor are separate processes, so the processor's cycle is split at  *)
(* its store operations and scraper writes interleave between them.        *)
(***************************************************************************)
EXTENDS Integers, Sequences, FiniteSets, TLC

(***************************************************************************)
(* Bounds of the model.                                                    *)
(***************************************************************************)
MaxRaw == 2        \* raw documents the raw collection may hold while the scraper runs
MaxBatch == 3      \* raw documents of a store the processor runs on alone
MaxClock == 1      \* last value of the wall clock (epoch-millis, abstract)
MaxRewrites == 1   \* times the scraper may overwrite a raw document in place
BatchLimit == 3    \* .limit(500) of the batch query, scaled down
MaxScores == 6     \* longest batch given to the aggregation alone
TopK == 5          \* slice width of top_positive / top_negative
MaxCompound == 100 \* largest compound score given to the labelling alone (1.0)
MaxApiRaw == 3     \* raw documents of a store the API is called on
MaxRetryRaw == 4   \* raw documents of a store larger than the batch limit
MaxQueryRaw == 5   \* raw documents of a store the batch query alone runs on
Day == 1           \* timedelta(days=1) in units of the clock
TopMentions == 10  \* slice width of top_mentions
DefaultLimit == 5  \* request.args.get('limit', '5')

(***************************************************************************)
(* Python / BSON values.  Every value is a record with a type tag t; the   *)
(* scalar ones carry an integer v.  A key that a document does not have    *)
(* is Absent, a JSON null is None.                                         *)
(*   IntV(n)     the integer n                                              *)
(*   FloatV(n)   the float n.0                                              *)
(*   NumStrV(n)  the string holding the decimal literal of n, e.g. "20"     *)
(*   StrV(n)     a string that is not a number; as a text, the valence      *)
(*              VADER's lexicon gives it is n                              *)
(*   DictV(r,c)  the nested rating object {rate: r, count: c}               *)
(***************************************************************************)
Absent == [t |-> "absent", v |-> 0]
None == [t |-> "none", v |-> 0]
TrueV == [t |-> "bool", v |-> 1]
IntV(n) == [t |-> "int", v |-> n]
FloatV(n) == [t |-> "float", v |-> n]
NumStrV(n) == [t |-> "numstr", v |-> n]
StrV(n) == [t |-> "str", v |-> n]
DictV(r, c) == [t |-> "dict", rate |-> r, count |-> c]

\* dict.get(key): None when the key is missing
Get(doc, f) == IF doc[f].t = "absent" THEN None ELSE doc[f]

\* Python truthiness, as used by `a or b`
Truthy(x) ==
    /\ x.t \notin {"absent", "none"}
    /\ ~(x.t \in {"int", "float", "bool"} /\ x.v = 0)

\* a or b
Or(a, b) == IF Truthy(a) THEN a ELSE b

\* int(x) / float(x) raise ValueError on a non-numeric string and TypeError
\* on None or a dict
NumRaises(x) == x.t \notin {"int", "float", "numstr", "bool"}
NumOf(x) == x.v

(***************************************************************************)
(* analyze_product.  Compound scores are scaled by 100 (0.05 is 5).        *)
(***************************************************************************)
IsText(x) == x.t \in {"str", "numstr"}
Valence(x) == IF x.t = "str" THEN x.v ELSE 0

\* analyzer.polarity_scores(text)['compound'] of a text of total valence n:
\* VADER normalises the summed valence into [-1, 1], monotonically
PolarityCompound(n) ==
    CASE n <= -2 -> -80
      [] n = -1 -> -5
      [] n = 0 -> 0
      [] n = 1 -> 5
      [] OTHER -> 80

\* (doc.get('title') or '') + '. ' + (doc.get('description') or '') raises
\* TypeError when a truthy operand is not a string
TextRaises(doc) ==
    \/ (Truthy(Get(doc, "title")) /\ ~IsText(Get(doc, "title")))
    \/ (Truthy(Get(doc, "description")) /\ ~IsText(Get(doc, "description")))

TextValence(doc) ==
    (IF Truthy(Get(doc, "title")) THEN Valence(Get(doc, "title")) ELSE 0)
    + (IF Truthy(Get(doc, "description")) THEN Valence(Get(doc, "description")) ELSE 0)

\* the thresholds compared strictly
LabelOfStrict(score) ==
    IF score > 5 THEN "positive"
    ELSE IF score < -5 THEN "negative"
    ELSE "neutral"

\* lines 37-41
LabelOf(score) ==
    IF score >= 5 THEN "positive"
    ELSE IF score <= -5 THEN "negative"
    ELSE "neutral"

analyze_product(doc) ==
    LET score == PolarityCompound(TextValence(doc))
    IN  [score |-> score, label |-> LabelOf(score)]

(***************************************************************************)
(* The body of the for loop of process_batch up to the upsert: the         *)
(* processed document built from one raw document.                         *)
(***************************************************************************)
PidArg(doc) == Or(Or(Get(doc, "product_id"), Get(doc, "id")), IntV(0))
PriceArg(doc) == Or(Get(doc, "price"), FloatV(0))

\* doc.get('rating', {}): the default replaces a missing key only
RatingArg(doc) == IF doc.rating.t = "absent" THEN DictV(Absent, Absent) ELSE doc.rating

\* some expression of lines 53-68 raises (ValueError, TypeError, AttributeError)
TransformRaises(doc) ==
    \/ NumRaises(PidArg(doc))
    \/ TextRaises(doc)
    \/ NumRaises(PriceArg(doc))
    \/ RatingArg(doc).t # "dict"

proc_doc(doc, now) ==
    LET s == analyze_product(doc)
    IN  [product_id |-> NumOf(PidArg(doc)),
         title |-> Get(doc, "title"),
         category |-> Get(doc, "category"),
         price |-> FloatV(NumOf(PriceArg(doc))),
         avg_rating |-> Get(RatingArg(doc), "rate"),
         rating_count |-> Get(RatingArg(doc), "count"),
         sentiment_score |-> s.score,
         sentiment_label |-> s.label,
         last_processed |-> now,
         timestamp |-> now]

(***************************************************************************)
(* Store operations on a collection held as a sequence of documents.       *)
(***************************************************************************)
RECURSIVE FirstWith(_, _, _, _)
\* index of the first document of col, from i on, whose field f is val; 0 if none
FirstWith(col, f, val, i) ==
    IF i > Len(col) THEN 0
    ELSE IF col[i][f] = val THEN i
    ELSE FirstWith(col, f, val, i + 1)

\* {'$set': new} on one document: the keys of new replace the old ones, the
\* other keys stay
SetFields(old, new) ==
    [f \in DOMAIN old \cup DOMAIN new |-> IF f \in DOMAIN new THEN new[f] ELSE old[f]]

\* insert_one in place of the upsert
ProcUpsertAsInsert(col, d) == Append(col, d)

\* the upsert with {'$inc': {'sentiment_score': ...}} beside the $set
ProcUpsertAsInc(col, d) ==
    LET i == FirstWith(col, "product_id", d.product_id, 1)
    IN  IF i = 0 THEN Append(col, d)
        ELSE [col EXCEPT ![i] =
                [SetFields(col[i], d) EXCEPT
                    !.sentiment_score = col[i].sentiment_score + d.sentiment_score]]

\* the update without upsert=True: nothing is inserted when no document matches
ProcUpsertNoInsert(col, d) ==
    LET i == FirstWith(col, "product_id", d.product_id, 1)
    IN  IF i = 0 THEN col
        ELSE [col EXCEPT ![i] = SetFields(col[i], d)]

\* proc_col.update_one({'product_id': pid}, {'$set': d}, upsert=True)
ProcUpsert(col, d) ==
    LET i == FirstWith(col, "product_id", d.product_id, 1)
    IN  IF i = 0 THEN Append(col, d)
        ELSE [col EXCEPT ![i] = SetFields(col[i], d)]

\* the update document without '$set': the raw document is replaced by it
MarkProcessedAsReplace(col, id, now_ms) ==
    LET i == FirstWith(col, "_id", id, 1)
    IN  IF i = 0 THEN col
        ELSE [col EXCEPT ![i] =
                [f \in DOMAIN col[i] |->
                    CASE f = "_id" -> col[i][f]
                      [] f = "processed" -> TrueV
                      [] f = "processed_at" -> IntV(now_ms)
                      [] OTHER -> Absent]]

\* raw_col.update_one({'_id': id}, {'$set': {'processed': True, 'processed_at': now_ms}})
MarkProcessed(col, id, now_ms) ==
    LET i == FirstWith(col, "_id", id, 1)
    IN  IF i = 0 THEN col
        ELSE [col EXCEPT ![i] =
                SetFields(col[i], [processed |-> TrueV, processed_at |-> IntV(now_ms)])]

\* the snapshot inserted beside the one there is
ReplaceLatestAsInsert(col, doc) == Append(col, doc)

\* insights_col.replace_one({'_id': 'latest'}, doc, upsert=True)
ReplaceLatest(col, doc) ==
    LET i == FirstWith(col, "_id", "latest", 1)
    IN  IF i = 0 THEN Append(col, doc)
        ELSE [col EXCEPT ![i] = doc]

(***************************************************************************)
(* The batch query of process_batch:                                       *)
(*   raw_col.find({'processed': {'$ne': True}}).sort('ingested_at', 1)     *)
(*          .limit(500)                                                    *)
(* MongoDB leaves the order of documents with equal sort keys open, so the *)
(* query has every result that is sorted, and cut at the limit, as a       *)
(* possible answer.                                                        *)
(***************************************************************************)
Unprocessed(col) == {i \in 1..Len(col) : col[i].processed # TrueV}

Min(a, b) == IF a < b THEN a ELSE b

\* the orders of the index set S that ascend by ingested_at, cut at n
SortedPrefixes(col, S, n) ==
    LET k == Min(n, Cardinality(S))
    IN  {q \in [1..k -> S] :
            /\ \A a, b \in 1..k : a < b =>
                  /\ q[a] # q[b]
                  /\ col[q[a]].ingested_at.v <= col[q[b]].ingested_at.v
            /\ \A j \in S : (\A a \in 1..k : q[a] # j) =>
                  \A a \in 1..k : col[q[a]].ingested_at.v <= col[j].ingested_at.v}

\* the query without .sort('ingested_at', 1): natural order
BatchesUnsorted(col) ==
    {SubSeq(SelectSeq(col, LAMBDA d : d.processed # TrueV), 1,
            Min(BatchLimit, Cardinality(Unprocessed(col))))}

Batches(col) ==
    {[a \in DOMAIN q |-> col[q[a]]] : q \in SortedPrefixes(col, Unprocessed(col), BatchLimit)}

(***************************************************************************)
(* store_product of the scraper.  A payload p is a record of the catalog   *)
(* keys; a key the item does not have is Absent.  raw_payload, a copy of   *)
(* p that nothing reads, is left out of the documents.                     *)
(***************************************************************************)
PayloadKeys == {"id", "title", "description", "category", "price", "rating"}

\* doc.get('id', 0): the default replaces a missing key only
IdArg(p) == IF p.id.t = "absent" THEN IntV(0) ELSE p.id

\* int(doc.get('id', 0)) raises; nothing in scraper.py catches it
StoreRaises(p) == NumRaises(IdArg(p))

\* doc after lines 38-44
ScraperDoc(p, now_ms) ==
    [f \in PayloadKeys \cup {"product_id", "ingested_at"} |->
        CASE f = "product_id" -> IntV(NumOf(IdArg(p)))
          [] f = "ingested_at" -> IntV(now_ms)
          [] OTHER -> p[f]]

\* the document the collection holds after doc is inserted under _id id
Inserted(doc, id) ==
    [f \in DOMAIN doc \cup {"_id", "processed", "processed_at"} |->
        CASE f = "_id" -> id
          [] f \in {"processed", "processed_at"} -> Absent
          [] OTHER -> doc[f]]

\* col.insert_one(doc)
RawInsert(col, doc) == Append(col, Inserted(doc, Len(col) + 1))

\* the raw document replaced by doc instead of updated: keys doc lacks are lost
RawSetAsReplace(old, doc) ==
    [f \in DOMAIN old |->
        IF f = "_id" THEN old[f]
        ELSE IF f \in DOMAIN doc THEN doc[f]
        ELSE Absent]

\* {'$set': doc} on a raw document: doc holds the keys that are not Absent
RawSet(old, doc) ==
    [f \in DOMAIN old |->
        IF f \in DOMAIN doc /\ doc[f] # Absent THEN doc[f] ELSE old[f]]

\* col.update_one({'product_id': doc['product_id']}, {'$set': doc}, upsert=True)
RawUpsert(col, doc) ==
    LET i == FirstWith(col, "product_id", doc.product_id, 1)
    IN  IF i = 0 THEN RawInsert(col, doc)
        ELSE [col EXCEPT ![i] = RawSet(col[i], doc)]

\* the same call in the except branch of line 52: insert_one has put a new
\* '_id' into doc before it failed, and MongoDB refuses a $set that changes
\* the _id of the document it matched (the WriteError leaves store_product)
FallbackRefused(col, doc) == FirstWith(col, "product_id", doc.product_id, 1) # 0

(***************************************************************************)
(* The insights of process_batch, lines 78-87.                             *)
(***************************************************************************)
RECURSIVE InsertDescBeforeEqual(_, _)
\* d put before the entries of equal score: a sort that is not stable
InsertDescBeforeEqual(s, d) ==
    IF s = <<>> THEN <<d>>
    ELSE IF Head(s).sentiment_score > d.sentiment_score
         THEN <<Head(s)>> \o InsertDescBeforeEqual(Tail(s), d)
         ELSE <<d>> \o s

RECURSIVE InsertDesc(_, _)
\* d put into the descending sequence s behind every entry whose score is
\* not lower: one step of a stable sort
InsertDesc(s, d) ==
    IF s = <<>> THEN <<d>>
    ELSE IF Head(s).sentiment_score >= d.sentiment_score
         THEN <<Head(s)>> \o InsertDesc(Tail(s), d)
         ELSE <<d>> \o s

RECURSIVE SortDesc(_)
\* sorted(all_proc, key=lambda x: x.get('sentiment_score',0), reverse=True):
\* stable, reverse keeps equal keys in their original order
SortDesc(s) ==
    IF s = <<>> THEN <<>>
    ELSE InsertDesc(SortDesc(SubSeq(s, 1, Len(s) - 1)), s[Len(s)])

\* {'product_id':d['product_id'], 'title':d.get('title'), 'score':d.get('sentiment_score')}
Entry(d) == [product_id |-> d.product_id, title |-> d.title, score |-> d.sentiment_score]

Entries(s) == [k \in DOMAIN s |-> Entry(s[k])]

\* s[:n]
FirstN(s, n) == SubSeq(s, 1, Min(n, Len(s)))

\* s[-n:]
LastN(s, n) == SubSeq(s, Len(s) - Min(n, Len(s)) + 1, Len(s))

RECURSIVE SumScores(_)
SumScores(s) == IF s = <<>> THEN 0 ELSE Head(s).sentiment_score + SumScores(Tail(s))

RECURSIVE Gcd(_, _)
Gcd(a, b) == IF b = 0 THEN a ELSE Gcd(b, a % b)

Abs(a) == IF a < 0 THEN 0 - a ELSE a

\* the quotient a / b (b > 0) as a fraction in lowest terms
Quotient(a, b) ==
    LET g == Gcd(Abs(a), b)
    IN  [num |-> a \div g, den |-> b \div g]

\* sorted_by_sent[:5] and sorted_by_sent[-5:]
TopPositive(all) == Entries(FirstN(SortDesc(all), TopK))
TopNegative(all) == Entries(LastN(SortDesc(all), TopK))

\* the insights document of a batch that is not empty
InsightsDoc(all, now) ==
    [_id |-> "latest",
     generated_at |-> now,
     top_positive |-> TopPositive(all),
     top_negative |-> TopNegative(all),
     avg_sentiment |-> Quotient(SumScores(all), Len(all))]

\* `if all_proc:` guards the aggregation and its write
WritesInsights(all) == all # <<>>

\* the write moved out of the `if`: an empty snapshot for an empty batch
InsightsAfterUnguarded(col, all, now) ==
    IF all # <<>> THEN ReplaceLatest(col, InsightsDoc(all, now))
    ELSE ReplaceLatest(col, [_id |-> "latest", generated_at |-> now,
                             top_positive |-> <<>>, top_negative |-> <<>>,
                             avg_sentiment |-> [num |-> 0, den |-> 1]])

\* insights_col after lines 78-87
InsightsAfter(col, all, now) ==
    IF WritesInsights(all) THEN ReplaceLatest(col, InsightsDoc(all, now)) ELSE col

(***************************************************************************)
(* Inputs: the catalog items the source API returns, and a document that   *)
(* is in the raw collection when the processor starts.                     *)
(***************************************************************************)
Rating == DictV(IntV(4), IntV(9))

Item(id, title, description, category, price, rating) ==
    [id |-> id, title |-> title, description |-> description,
     category |-> category, price |-> price, rating |-> rating]

ItemGood == Item(IntV(1), StrV(2), StrV(0), StrV(0), NumStrV(10), Rating)
ItemPoor == Item(IntV(1), StrV(-2), Absent, None, IntV(-5), Absent)
ItemBadPrice == Item(IntV(2), StrV(2), None, StrV(0), StrV(0), Rating)
ItemNoId == Item(Absent, None, Absent, StrV(0), Absent, Rating)
ItemRefund == Item(IntV(2), StrV(2), StrV(0), StrV(0), IntV(-5), Rating)
Items == {ItemGood, ItemPoor, ItemBadPrice, ItemNoId}

\* items whose documents the transformation accepts
AggItems == {ItemGood, ItemPoor, ItemNoId, ItemRefund}

\* a document stored without product_id whose id is not a number
Historical ==
    [_id |-> 1, product_id |-> Absent, id |-> StrV(0), title |-> StrV(2),
     description |-> Absent, category |-> Absent, price |-> IntV(1),
     rating |-> Absent, ingested_at |-> IntV(0), processed |-> Absent,
     processed_at |-> Absent]

(***************************************************************************)
(* State.                                                                  *)
(***************************************************************************)
VARIABLES
    raw,          \* raw_col: the raw documents
    proc,         \* proc_col: the processed products
    insights,     \* insights_col
    clock,        \* datetime.now(), epoch-millis, as of the last scraper write
    strategy,     \* SCRAPER_STRATEGY
    rewrites,     \* in-place updates of raw documents so far
    pc,           \* processor: "idle" (in time.sleep), "loop", "mark",
                  \* "ended" when process_batch is about to return, and
                  \* "crashed" when an exception has left main
    batch,        \* the documents the cursor returned
    idx,          \* position of the for loop in batch
    pd,           \* proc_doc of the current iteration (<<>>: none)
    all_proc,     \* all_proc (processed_count is its length)
    \* what the current (or, when idle, the last) cycle did
    outcome,      \* "none", "running", "done", "aborted"
    failedAt,     \* position of the record whose processing raised, or 0
    failKind,     \* "none", "transform" or "store"
    upserted,     \* positions whose upsert succeeded
    markFailed,   \* positions whose consumption mark failed
    wrote,        \* the cycle replaced the insights snapshot
    proc0,        \* proc_col when the cycle began
    insights0,    \* insights_col when the cycle began
    \* what the processor did over all cycles
    lastSrc,      \* pairs <<product id, the raw document last upserted under it>>
    reproc,       \* <<before, after>> when the last upsert processed the same
                  \* raw document as the upsert before it under that id
    retry,        \* _id of the raw documents whose mark failed in the cycle
                  \* that returned last
    \* analyze_product on its own
    compound,     \* s['compound'] of line 35, times 100
    label,        \* the label of line 42 ("none": not computed yet)
    \* the presentation API
    request,      \* the last request: its path, its limit argument, its instant
    response      \* the response to it

store == <<raw, proc, insights>>
proc_vars == <<pc, batch, idx, pd, all_proc>>
cycle_vars == <<outcome, failedAt, failKind, upserted, markFailed, wrote, proc0, insights0>>
hist_vars == <<lastSrc, reproc>>
\* every step of the processor but Return
KeepRetry == UNCHANGED retry
env_vars == <<clock, strategy, rewrites>>
label_vars == <<compound, label>>
api_vars == <<request, response>>
vars == <<store, proc_vars, cycle_vars, hist_vars, retry, env_vars, label_vars, api_vars>>

\* analyze_product is not under way
NoLabel == compound = 0 /\ label = "none"

\* no request has been served
NoRequest ==
    /\ request = [path |-> "none", limit |-> Absent, now |-> 0]
    /\ response = [status |-> "none"]

NoCycle ==
    /\ outcome = "none" /\ failedAt = 0 /\ failKind = "none"
    /\ upserted = {} /\ markFailed = {} /\ wrote = FALSE
    /\ proc0 = <<>> /\ insights0 = <<>>

Init ==
    /\ raw \in {<<>>, <<Historical>>}
    /\ proc = <<>> /\ insights = <<>>
    /\ clock = 0
    /\ strategy \in {"insert", "upsert"}
    /\ rewrites = 0
    /\ pc = "idle" /\ batch = <<>> /\ idx = 1 /\ pd = <<>> /\ all_proc = <<>>
    /\ NoCycle
    /\ lastSrc = {} /\ reproc = <<>>
    /\ retry = {}
    /\ NoLabel
    /\ NoRequest

\* the instants store_product may read at line 41: time does not go back
Nows == {t \in clock..(clock + 1) : t <= MaxClock}

(***************************************************************************)
(* The scraper: one call of store_product that changes the raw store.  A   *)
(* call whose line 40 raises stores nothing and ends the scraper, and a    *)
(* call whose write fails stores nothing: neither changes the state.       *)
(***************************************************************************)
ScraperFrame ==
    UNCHANGED <<proc, insights, proc_vars, cycle_vars, hist_vars, retry, strategy, label_vars,
                api_vars>>

\* update_one of the scraper matches a document
Matches(doc) == FirstWith(raw, "product_id", doc.product_id, 1) # 0

\* strategy 'upsert', line 47
StoreUpsert ==
    /\ strategy = "upsert"
    /\ \E p \in Items, now \in Nows :
         /\ ~StoreRaises(p)
         /\ LET doc == ScraperDoc(p, now)
            IN  /\ Len(RawUpsert(raw, doc)) <= MaxRaw
                /\ Matches(doc) => rewrites < MaxRewrites
                /\ raw' = RawUpsert(raw, doc)
                /\ rewrites' = IF Matches(doc) THEN rewrites + 1 ELSE rewrites
         /\ clock' = now
    /\ ScraperFrame

\* strategy 'insert', line 51
StoreInsert ==
    /\ strategy # "upsert"
    /\ Len(raw) < MaxRaw
    /\ \E p \in Items, now \in Nows :
         /\ ~StoreRaises(p)
         /\ raw' = RawInsert(raw, ScraperDoc(p, now))
         /\ clock' = now
    /\ UNCHANGED rewrites
    /\ ScraperFrame

\* strategy 'insert', insert_one raised: line 54 instead
StoreFallback ==
    /\ strategy # "upsert"
    /\ Len(raw) < MaxRaw
    /\ \E p \in Items, now \in Nows :
         /\ ~StoreRaises(p)
         /\ LET doc == ScraperDoc(p, now)
            IN  /\ ~FallbackRefused(raw, doc)
                /\ raw' = RawUpsert(raw, doc)
         /\ clock' = now
    /\ UNCHANGED rewrites
    /\ ScraperFrame

(***************************************************************************)
(* The processor: one cycle of process_batch, split at its store           *)
(* operations.  Any exception but the one of the consumption mark leaves   *)
(* the for loop and is caught at lines 89-92, which ends the cycle.        *)
(***************************************************************************)
ProcessorFrame == UNCHANGED <<env_vars, label_vars, api_vars>>

\* the handlers without `except Exception`
CaughtMongoOnly(kind) == kind = "store"

\* lines 89-92: a PyMongoError (kind "store") is caught by the first handler,
\* any other Exception (kind "transform") by the second
Caught(kind) == kind \in {"store", "transform"}

\* where an exception of the try block takes the processor: to the end of
\* process_batch, or out of process_batch and of the loop of main
AfterRaise(kind) == IF Caught(kind) THEN "ended" ELSE "crashed"

\* line 49 and the first fetch of the cursor
Select ==
    /\ pc = "idle"
    /\ \E b \in Batches(raw) : batch' = b
    /\ pc' = "loop" /\ idx' = 1 /\ pd' = <<>> /\ all_proc' = <<>>
    /\ outcome' = "running" /\ failedAt' = 0 /\ failKind' = "none"
    /\ upserted' = {} /\ markFailed' = {} /\ wrote' = FALSE
    /\ proc0' = proc /\ insights0' = insights
    /\ UNCHANGED <<store, hist_vars>>
    /\ ProcessorFrame /\ KeepRetry

\* the query raises PyMongoError
SelectFault ==
    /\ pc = "idle"
    /\ pc' = AfterRaise("store")
    /\ batch' = <<>> /\ idx' = 1 /\ pd' = <<>> /\ all_proc' = <<>>
    /\ outcome' = "aborted" /\ failedAt' = 0 /\ failKind' = "store"
    /\ upserted' = {} /\ markFailed' = {} /\ wrote' = FALSE
    /\ proc0' = proc /\ insights0' = insights
    /\ UNCHANGED <<store, hist_vars>>
    /\ ProcessorFrame /\ KeepRetry

Abort(kind) ==
    /\ pc' = AfterRaise(kind) /\ outcome' = "aborted" /\ failedAt' = idx /\ failKind' = kind
    /\ UNCHANGED <<batch, idx, pd, all_proc, upserted, markFailed, wrote, proc0, insights0>>
    /\ UNCHANGED <<store, hist_vars>>
    /\ ProcessorFrame /\ KeepRetry

\* lines 53-68 raise on batch[idx]
TransformFail ==
    /\ pc = "loop" /\ idx <= Len(batch)
    /\ TransformRaises(batch[idx])
    /\ Abort("transform")

\* lines 53-69: the processed document is built and upserted
Upsert ==
    /\ pc = "loop" /\ idx <= Len(batch)
    /\ ~TransformRaises(batch[idx])
    /\ LET d == proc_doc(batch[idx], clock)
           i == FirstWith(proc, "product_id", d.product_id, 1)
           j == FirstWith(ProcUpsert(proc, d), "product_id", d.product_id, 1)
       IN  /\ proc' = ProcUpsert(proc, d)
           /\ pd' = d
           /\ lastSrc' = {e \in lastSrc : e[1] # d.product_id} \cup {<<d.product_id, batch[idx]>>}
           /\ reproc' = IF i # 0 /\ <<d.product_id, batch[idx]>> \in lastSrc
                        THEN <<proc[i], ProcUpsert(proc, d)[j]>>
                        ELSE <<>>
    /\ upserted' = upserted \cup {idx}
    /\ pc' = "mark"
    /\ UNCHANGED <<raw, insights, batch, idx, all_proc>>
    /\ UNCHANGED <<outcome, failedAt, failKind, markFailed, wrote, proc0, insights0>>
    /\ ProcessorFrame /\ KeepRetry

\* line 69 raises PyMongoError
UpsertFault ==
    /\ pc = "loop" /\ idx <= Len(batch)
    /\ ~TransformRaises(batch[idx])
    /\ Abort("store")

AfterMark ==
    /\ all_proc' = Append(all_proc, pd)
    /\ idx' = idx + 1
    /\ pd' = <<>>
    /\ pc' = "loop"
    /\ reproc' = <<>>
    /\ UNCHANGED <<proc, insights, batch, lastSrc>>
    /\ UNCHANGED <<outcome, failedAt, failKind, upserted, wrote, proc0, insights0>>
    /\ ProcessorFrame /\ KeepRetry

\* lines 72-76
Mark ==
    /\ pc = "mark"
    /\ raw' = MarkProcessed(raw, batch[idx]._id, pd.timestamp)
    /\ UNCHANGED markFailed
    /\ AfterMark

\* the except branch leaving the iteration (a `continue` after the log)
MarkFaultSkipsRecord ==
    /\ pc = "mark"
    /\ raw' = raw
    /\ markFailed' = markFailed \cup {idx}
    /\ idx' = idx + 1 /\ pd' = <<>> /\ pc' = "loop" /\ reproc' = <<>>
    /\ UNCHANGED <<proc, insights, batch, all_proc, lastSrc>>
    /\ UNCHANGED <<outcome, failedAt, failKind, upserted, wrote, proc0, insights0>>
    /\ ProcessorFrame /\ KeepRetry

\* line 72 raises, lines 73-76
MarkFault ==
    /\ pc = "mark"
    /\ raw' = raw
    /\ markFailed' = markFailed \cup {idx}
    /\ AfterMark

EndCycle ==
    /\ pc' = "ended" /\ outcome' = "done"
    /\ UNCHANGED <<raw, proc, batch, idx, pd, all_proc, hist_vars>>
    /\ UNCHANGED <<failedAt, failKind, upserted, markFailed, proc0, insights0>>
    /\ ProcessorFrame /\ KeepRetry

\* lines 78-88
Insights ==
    /\ pc = "loop" /\ idx > Len(batch)
    /\ insights' = InsightsAfter(insights, all_proc, clock)
    /\ wrote' = WritesInsights(all_proc)
    /\ EndCycle

\* line 87 raises PyMongoError
InsightsFault ==
    /\ pc = "loop" /\ idx > Len(batch)
    /\ WritesInsights(all_proc)
    /\ Abort("store")

\* process_batch returns to main, line 99: its locals are gone
Return ==
    /\ pc = "ended"
    /\ pc' = "idle" /\ batch' = <<>> /\ idx' = 1 /\ pd' = <<>> /\ all_proc' = <<>>
    /\ outcome' = "none" /\ failedAt' = 0 /\ failKind' = "none"
    /\ upserted' = {} /\ markFailed' = {} /\ wrote' = FALSE
    /\ proc0' = <<>> /\ insights0' = <<>>
    /\ retry' = {batch[k]._id : k \in markFailed}
    /\ UNCHANGED <<store, hist_vars>>
    /\ ProcessorFrame

ScraperNext == StoreUpsert \/ StoreInsert \/ StoreFallback

ProcessorNext ==
    \/ Select \/ SelectFault
    \/ TransformFail \/ Upsert \/ UpsertFault
    \/ Mark \/ MarkFault
    \/ Insights \/ InsightsFault
    \/ Return

\* scraper and processor run side by side
Next == ScraperNext \/ ProcessorNext

Spec == Init /\ [][Next]_vars

(***************************************************************************)
(* The processor alone, on a raw store the scraper has filled and left:    *)
(* up to MaxBatch documents inserted (strategy 'insert') at instants that  *)
(* do not go back.                                                         *)
(***************************************************************************)
RECURSIVE Filled(_, _)
\* the raw store after store_product(items[k]) at instant times[k], k = 1, 2, ...
Filled(items, times) ==
    IF items = <<>> THEN <<>>
    ELSE RawInsert(Filled(SubSeq(items, 1, Len(items) - 1), times),
                   ScraperDoc(items[Len(items)], times[Len(items)]))

Ascending(times) == \A a, b \in DOMAIN times : a < b => times[a] <= times[b]

InitBatch ==
    /\ \E n \in 0..MaxBatch :
         \E items \in [1..n -> Items], times \in [1..n -> 0..MaxClock] :
            /\ Ascending(times)
            /\ raw = Filled(items, times)
            /\ clock = IF n = 0 THEN 0 ELSE times[n]
    /\ proc = <<>> /\ insights = <<>>
    /\ strategy = "insert"
    /\ rewrites = 0
    /\ pc = "idle" /\ batch = <<>> /\ idx = 1 /\ pd = <<>> /\ all_proc = <<>>
    /\ NoCycle
    /\ lastSrc = {} /\ reproc = <<>>
    /\ retry = {}
    /\ NoLabel
    /\ NoRequest

SpecBatch == InitBatch /\ [][ProcessorNext]_vars

(***************************************************************************)
(* The processor alone on a store that holds more unconsumed documents     *)
(* than one batch takes: up to MaxRetryRaw sound documents, the only       *)
(* failures those of the consumption mark.                                 *)
(***************************************************************************)
RetryItems == {ItemGood, ItemNoId}

InitRetry ==
    /\ \E n \in 0..MaxRetryRaw :
         \E items \in [1..n -> RetryItems], times \in [1..n -> 0..MaxClock] :
            /\ Ascending(times)
            /\ raw = Filled(items, times)
            /\ clock = IF n = 0 THEN 0 ELSE times[n]
    /\ proc = <<>> /\ insights = <<>>
    /\ strategy = "insert"
    /\ rewrites = 0
    /\ pc = "idle" /\ batch = <<>> /\ idx = 1 /\ pd = <<>> /\ all_proc = <<>>
    /\ NoCycle
    /\ lastSrc = {} /\ reproc = <<>>
    /\ retry = {}
    /\ NoLabel
    /\ NoRequest

NextRetry == Select \/ Upsert \/ Mark \/ MarkFault \/ Insights \/ Return

SpecRetry == InitRetry /\ [][NextRetry]_vars

(***************************************************************************)
(* The batch query alone, on the stores the 'upsert' strategy leaves: one  *)
(* document per product, each rewritten by the scraper at any instant      *)
(* (so the insertion order is not the order of ingested_at) and consumed   *)
(* by the processor or not.                                                *)
(***************************************************************************)
QueryItem(j) == Item(IntV(j), StrV(0), StrV(0), StrV(0), IntV(1), Rating)

InitQuery ==
    /\ \E n \in 0..MaxQueryRaw :
         \E times \in [1..n -> 0..MaxClock], done \in [1..n -> BOOLEAN] :
            raw = [j \in 1..n |->
                     LET d == Inserted(ScraperDoc(QueryItem(j), times[j]), j)
                     IN  IF done[j]
                         THEN SetFields(d, [processed |-> TrueV, processed_at |-> IntV(0)])
                         ELSE d]
    /\ proc = <<>> /\ insights = <<>>
    /\ clock = MaxClock
    /\ strategy = "upsert"
    /\ rewrites = 0
    /\ pc = "idle" /\ batch = <<>> /\ idx = 1 /\ pd = <<>> /\ all_proc = <<>>
    /\ NoCycle
    /\ lastSrc = {} /\ reproc = <<>>
    /\ retry = {}
    /\ NoLabel
    /\ NoRequest

NextQuery == Select \/ SelectFault \/ Return

SpecQuery == InitQuery /\ [][NextQuery]_vars

(***************************************************************************)
(* The processor alone, the scraper stopped and every store operation      *)
(* succeeding.  main calls process_batch again after every sleep, so the   *)
(* processor always takes its next step.                                   *)
(***************************************************************************)
NextLive == Select \/ TransformFail \/ Upsert \/ Mark \/ Insights \/ Return

SpecLive == InitBatch /\ [][NextLive]_vars /\ WF_vars(NextLive)

(***************************************************************************)
(* The aggregation alone: the processor at line 77 of a cycle that has     *)
(* upserted and marked a batch of up to MaxScores documents.               *)
(***************************************************************************)
RECURSIVE Upserted(_, _)
\* proc_col after the documents of all were upserted in order
Upserted(col, all) ==
    IF all = <<>> THEN col
    ELSE ProcUpsert(Upserted(col, SubSeq(all, 1, Len(all) - 1)), all[Len(all)])

InitAgg ==
    /\ \E n \in 1..MaxScores :
         \E items \in [1..n -> AggItems] :
            LET filled == Filled(items, [k \in 1..n |-> 0])
                done == [k \in 1..n |-> proc_doc(filled[k], 0)]
            IN  /\ batch = filled
                /\ raw = [k \in 1..n |->
                            SetFields(filled[k], [processed |-> TrueV, processed_at |-> IntV(0)])]
                /\ all_proc = done
                /\ proc = Upserted(<<>>, done)
                /\ idx = n + 1
                /\ upserted = 1..n
                /\ lastSrc = {<<done[k].product_id, filled[k]>> : k \in
                                {k \in 1..n : \A j \in (k + 1)..n :
                                    done[j].product_id # done[k].product_id}}
    /\ insights = <<>>
    /\ clock = 0
    /\ strategy = "insert"
    /\ rewrites = 0
    /\ pc = "loop" /\ pd = <<>>
    /\ outcome = "running" /\ failedAt = 0 /\ failKind = "none"
    /\ markFailed = {} /\ wrote = FALSE
    /\ proc0 = <<>> /\ insights0 = <<>>
    /\ reproc = <<>>
    /\ retry = {}
    /\ NoLabel
    /\ NoRequest

NextAgg == Insights \/ InsightsFault

SpecAgg == InitAgg /\ [][NextAgg]_vars

(***************************************************************************)
(* analyze_product alone, from the compound score the analyzer returned:   *)
(* any score of [-1, 1], in hundredths.                                    *)
(***************************************************************************)
InitLabel ==
    /\ compound \in (0 - MaxCompound)..MaxCompound
    /\ label = "none"
    /\ raw = <<>> /\ proc = <<>> /\ insights = <<>>
    /\ clock = 0 /\ strategy = "insert" /\ rewrites = 0
    /\ pc = "idle" /\ batch = <<>> /\ idx = 1 /\ pd = <<>> /\ all_proc = <<>>
    /\ NoCycle
    /\ lastSrc = {} /\ reproc = <<>> /\ retry = {}
    /\ NoRequest

\* lines 36-42
Analyze ==
    /\ label = "none"
    /\ label' = LabelOf(compound)
    /\ UNCHANGED <<compound, store, proc_vars, cycle_vars, hist_vars, retry, env_vars, api_vars>>

SpecLabel == InitLabel /\ [][Analyze]_vars

(***************************************************************************)
(* The presentation API, services/app/app.py.  An endpoint is a function   *)
(* from the three collections and the request to the set of responses it   *)
(* may give (a sort leaves the order of equal keys open).                  *)
(***************************************************************************)
\* the projection {'_id': 0}
WithoutId(d) == [f \in DOMAIN d \ {"_id"} |-> d[f]]

\* cursor.limit(n) on len documents: 0 is no limit, a negative n counts as -n
LimitOf(n, len) == IF n = 0 THEN len ELSE Min(Abs(n), len)

\* the value a document is sorted by: ingested_at is a BSON integer,
\* last_processed the ISO instant
SortKey(d, key) == IF key = "ingested_at" THEN d[key].v ELSE d[key]

\* .sort(key, -1).limit(n): the orders of col that descend by key, cut at n
DescPrefixes(col, key, n) ==
    LET k == LimitOf(n, Len(col))
    IN  {q \in [1..k -> 1..Len(col)] :
            /\ \A a, b \in 1..k : a < b =>
                  /\ q[a] # q[b]
                  /\ SortKey(col[q[a]], key) >= SortKey(col[q[b]], key)
            /\ \A j \in 1..Len(col) : (\A a \in 1..k : q[a] # j) =>
                  \A a \in 1..k : SortKey(col[q[a]], key) >= SortKey(col[j], key)}

\* jsonify({'status':'ok', 'data': data})
Ok(data) == [status |-> "ok", data |-> data]

\* the except branch of every endpoint
InternalError == [status |-> "error", message |-> "internal error", code |-> 500]

\* /api/summary, lines 35-36
api_summary(procCol) ==
    {Ok([a \in DOMAIN q |-> WithoutId(procCol[q[a]])]) :
        q \in DescPrefixes(procCol, "last_processed", 0)}

\* request.args.get('limit', '5')
LimitArg(limit) == IF limit = Absent THEN NumStrV(DefaultLimit) ELSE limit

\* /api/latest_products, lines 44-46
api_latest(rawCol, limit) ==
    IF NumRaises(LimitArg(limit)) THEN {InternalError}
    ELSE {Ok([a \in DOMAIN q |-> WithoutId(rawCol[q[a]])]) :
             q \in DescPrefixes(rawCol, "ingested_at", NumOf(LimitArg(limit)))}

\* raw_col.find({'ingested_at': {'$gte': since_ms}})
RecentRaw(rawCol, since_ms) ==
    SelectSeq(rawCol, LAMBDA d : d.ingested_at.t = "int" /\ d.ingested_at.v >= since_ms)

\* d.get('product_id') or 0
MentionArg(d) == Or(Get(d, "product_id"), IntV(0))

\* counts[pid] = counts.get(pid, 0) + 1: a dict keeps its keys in insertion order
Bump(counts, pid) ==
    IF \E k \in DOMAIN counts : counts[k].product_id = pid
    THEN [k \in DOMAIN counts |->
            IF counts[k].product_id = pid
            THEN [counts[k] EXCEPT !.mentions = counts[k].mentions + 1]
            ELSE counts[k]]
    ELSE Append(counts, [product_id |-> pid, mentions |-> 1])

RECURSIVE Mentions(_)
\* the items of counts after the loop of lines 59-61
Mentions(docs) ==
    IF docs = <<>> THEN <<>>
    ELSE Bump(Mentions(SubSeq(docs, 1, Len(docs) - 1)), NumOf(MentionArg(docs[Len(docs)])))

RECURSIVE InsertByMentions(_, _)
InsertByMentions(s, e) ==
    IF s = <<>> THEN <<e>>
    ELSE IF Head(s).mentions >= e.mentions
         THEN <<Head(s)>> \o InsertByMentions(Tail(s), e)
         ELSE <<e>> \o s

RECURSIVE SortByMentions(_)
\* sorted(..., key=lambda x: x['mentions'], reverse=True), stable
SortByMentions(s) ==
    IF s = <<>> THEN <<>>
    ELSE InsertByMentions(SortByMentions(SubSeq(s, 1, Len(s) - 1)), s[Len(s)])

\* insights_col.find_one({'_id':'latest'}) or insights_col.find_one({})
LatestInsights(insCol) ==
    IF FirstWith(insCol, "_id", "latest", 1) # 0
    THEN insCol[FirstWith(insCol, "_id", "latest", 1)]
    ELSE IF insCol # <<>> THEN insCol[1] ELSE None

\* /api/reports/daily, lines 54-64
api_daily(rawCol, insCol, now) ==
    LET recent_raw == RecentRaw(rawCol, now - Day)
    IN  IF \E k \in DOMAIN recent_raw : NumRaises(MentionArg(recent_raw[k]))
        THEN {InternalError}
        ELSE {Ok([total_posts |-> Len(recent_raw),
                  top_mentions |-> FirstN(SortByMentions(Mentions(recent_raw)), TopMentions),
                  insights |-> LatestInsights(insCol)])}

\* what a request may be answered with; a store failure gives the error too
Responses(req, rawCol, procCol, insCol) ==
    {InternalError} \cup
    CASE req.path = "/api/summary" -> api_summary(procCol)
      [] req.path = "/api/latest_products" -> api_latest(rawCol, req.limit)
      [] req.path = "/api/reports/daily" -> api_daily(rawCol, insCol, req.now)

\* the limit arguments of the requests
LimitArgs == {Absent, NumStrV(0), NumStrV(1), StrV(0)}

Serve(req) ==
    /\ request' = req
    /\ response' \in Responses(req, raw, proc, insights)
    /\ UNCHANGED <<store, proc_vars, cycle_vars, hist_vars, retry, env_vars, label_vars>>

ApiSummary == Serve([path |-> "/api/summary", limit |-> Absent, now |-> clock])

ApiLatest ==
    \E limit \in LimitArgs :
        Serve([path |-> "/api/latest_products", limit |-> limit, now |-> clock])

ApiDaily ==
    \E now \in clock..(clock + 1) :
        Serve([path |-> "/api/reports/daily", limit |-> Absent, now |-> now])

ApiNext == ApiSummary \/ ApiLatest \/ ApiDaily

\* the stores after the scraper inserted up to MaxApiRaw documents and the
\* processor, in a cycle that began after the first k, consumed those
InitApi ==
    /\ \E n \in 0..MaxApiRaw :
         \E items \in [1..n -> AggItems], times \in [1..n -> 0..MaxClock], k \in 0..n :
            LET filled == Filled(items, times)
                at == IF k = 0 THEN 0 ELSE times[k]
                done == [j \in 1..k |-> proc_doc(filled[j], at)]
            IN  /\ Ascending(times)
                /\ raw = [j \in 1..n |->
                            IF j <= k
                            THEN SetFields(filled[j], [processed |-> TrueV, processed_at |-> IntV(at)])
                            ELSE filled[j]]
                /\ proc = Upserted(<<>>, done)
                /\ insights = InsightsAfter(<<>>, done, at)
                /\ clock = IF n = 0 THEN 0 ELSE times[n]
                /\ lastSrc = {<<done[j].product_id, filled[j]>> : j \in
                                {j \in 1..k : \A i \in (j + 1)..k :
                                    done[i].product_id # done[j].product_id}}
    /\ strategy = "insert" /\ rewrites = 0
    /\ pc = "idle" /\ batch = <<>> /\ idx = 1 /\ pd = <<>> /\ all_proc = <<>>
    /\ NoCycle
    /\ reproc = <<>>
    /\ retry = {}
    /\ NoLabel
    /\ NoRequest

SpecApi == InitApi /\ [][ApiNext]_vars

(***************************************************************************)
(* Properties.                                                             *)
(***************************************************************************)
Score(doc) == analyze_product(doc).score

\* a processed product without last_processed and timestamp
NonTimestamp(d) == [f \in DOMAIN d \ {"last_processed", "timestamp"} |-> d[f]]

WithPid(col, pid) == {i \in 1..Len(col) : col[i].product_id = pid}

\* C1: partial-batch isolation.  In a cycle whose batch is [r1, r2, r3], if
\* transforming r2 fails (and r1, r3 can be transformed), then r1 and r3 are
\* upserted in that cycle and the snapshot the cycle writes is computed from
\* exactly the scores of r1 and r3.
C1_PartialBatchIsolation ==
    (/\ pc = "ended" /\ Len(batch) = 3 /\ failedAt = 2 /\ failKind = "transform"
     /\ ~TransformRaises(batch[1]) /\ ~TransformRaises(batch[3]))
    => /\ upserted = {1, 3}
       /\ wrote
       /\ Len(insights) = 1
       /\ insights[1].avg_sentiment = Quotient(Score(batch[1]) + Score(batch[3]), 2)

\* C2: exactly one processed document per identity.  For every product id
\* processed at least once the processed store holds exactly one document
\* with that id, and its non-timestamp fields are the transform of the raw
\* record last processed under that id; it holds no other documents.
C2_ExactlyOnePerIdentity ==
    /\ \A e \in lastSrc :
          /\ Cardinality(WithPid(proc, e[1])) = 1
          /\ \A i \in WithPid(proc, e[1]) :
                NonTimestamp(proc[i]) = NonTimestamp(proc_doc(e[2], 0))
    /\ \A i \in 1..Len(proc) : \E e \in lastSrc : e[1] = proc[i].product_id

\* two raw records of one product id were processed, and the one processed
\* last was ingested before the other
C2_Witness ==
    \E e \in lastSrc : \E i \in 1..Len(raw) :
        /\ raw[i].processed = TrueV
        /\ raw[i].product_id = e[2].product_id
        /\ raw[i]._id # e[2]._id
        /\ raw[i].title # e[2].title
        /\ raw[i].ingested_at.v > e[2].ingested_at.v
        /\ Cardinality(WithPid(proc, e[1])) = 1

\* C3: a consumed raw record stays consumed under every step of scraper and
\* processor, and a batch selection returns no record that is consumed.
C3_ConsumedNeverSelected ==
    [][/\ \A i \in 1..Len(raw) :
             raw[i].processed = TrueV =>
                /\ i <= Len(raw')
                /\ raw'[i]._id = raw[i]._id
                /\ raw'[i].processed = TrueV
       /\ (pc = "idle" /\ pc' = "loop") =>
             \A k \in 1..Len(batch') : \A i \in 1..Len(raw) :
                raw[i]._id = batch'[k]._id => raw[i].processed # TrueV]_vars

\* the scraper has overwritten a consumed raw record in place (strategy
\* 'upsert') and it is still consumed
C3_Witness ==
    /\ strategy = "upsert"
    /\ \E i \in 1..Len(raw) :
          /\ raw[i].processed = TrueV
          /\ raw[i].ingested_at.v > raw[i].processed_at.v

\* C4: every cycle that upserts at least one record replaces the insights
\* snapshot before it ends, also when a later record of the cycle fails
\* (cycles cut short by a store failure set aside).
C4_SnapshotWheneverUpserted ==
    (pc = "ended" /\ upserted # {} /\ failKind # "store") => wrote

\* C5: a cycle that finds no unconsumed raw record leaves the processed
\* collection and the insights snapshot as they were.
C5_EmptyBatchNoWrite ==
    (pc = "ended" /\ outcome = "done" /\ batch = <<>>)
    => (proc = proc0 /\ insights = insights0 /\ ~wrote)

\* a cycle on an empty batch has ended with products and a snapshot in store
C5_Witness ==
    /\ pc = "ended" /\ outcome = "done" /\ batch = <<>>
    /\ proc # <<>> /\ insights # <<>>

\* scores of the batch the cycle aggregated
ScoreAt(k) == all_proc[k].sentiment_score
Below(v) == {j \in 1..Len(all_proc) : ScoreAt(j) < v}
NotAbove(v) == {j \in 1..Len(all_proc) : ScoreAt(j) <= v}

\* C6: the snapshot's top_negative holds the (up to) 5 lowest scores of the
\* batch in ascending order: its r-th entry has the r-th lowest score.
C6_TopNegativeAscending ==
    (pc = "ended" /\ wrote) =>
        LET tn == insights[1].top_negative
        IN  /\ Len(tn) = Min(TopK, Len(all_proc))
            /\ \A r \in 1..Len(tn) :
                  /\ Cardinality(Below(tn[r].score)) < r
                  /\ r <= Cardinality(NotAbove(tn[r].score))

\* place of batch record i when the batch is ordered by descending score,
\* records of equal score in batch order
Rank(i) ==
    1 + Cardinality({j \in 1..Len(all_proc) :
                        \/ ScoreAt(j) > ScoreAt(i)
                        \/ (ScoreAt(j) = ScoreAt(i) /\ j < i)})

\* C7: the snapshot's top_positive holds the (up to) 5 highest scores of the
\* batch in descending order, records of equal score in batch order, the
\* earlier one preferred for inclusion: its r-th entry is the record of rank r.
C7_TopPositiveDescendingStable ==
    (pc = "ended" /\ wrote) =>
        LET tp == insights[1].top_positive
        IN  /\ Len(tp) = Min(TopK, Len(all_proc))
            /\ \A r \in 1..Len(tp) :
                  \E i \in 1..Len(all_proc) : Rank(i) = r /\ tp[r] = Entry(all_proc[i])

\* a snapshot of a batch of more than 5 records was written, and of two
\* records of equal score and different product the earlier one is in,
\* the later one out
C7_Witness ==
    /\ pc = "ended" /\ wrote /\ Len(all_proc) > TopK
    /\ \E a, b \in 1..Len(all_proc) :
          /\ a < b
          /\ ScoreAt(a) = ScoreAt(b)
          /\ all_proc[a].product_id # all_proc[b].product_id
          /\ Rank(a) <= TopK /\ Rank(b) > TopK

\* C8: idempotent reprocessing.  When a raw record is upserted again, no
\* other record of its product id upserted in between (so its consumption
\* mark failed), the processed product after the second upsert equals the
\* one after the first in every field but last_processed and timestamp.
C8_IdempotentReprocessing ==
    reproc # <<>> => NonTimestamp(reproc[1]) = NonTimestamp(reproc[2])

\* a record was processed a second time, at a later instant
C8_Witness ==
    /\ reproc # <<>>
    /\ reproc[1].timestamp < reproc[2].timestamp

\* C9: snapshot replacement, not merge.  After a cycle that wrote the
\* snapshot there is one insights document, with id 'latest', and its
\* top_positive, top_negative and avg_sentiment are those of this cycle's
\* batch alone.
C9_SnapshotReplaced ==
    (pc = "ended" /\ wrote) =>
        /\ Len(insights) = 1
        /\ insights[1]._id = "latest"
        /\ insights[1].top_positive = TopPositive(all_proc)
        /\ insights[1].top_negative = TopNegative(all_proc)
        /\ insights[1].avg_sentiment = Quotient(SumScores(all_proc), Len(all_proc))

\* a second cycle wrote the snapshot over a different one
C9_Witness ==
    /\ pc = "ended" /\ wrote
    /\ insights0 # <<>>
    /\ insights0[1].top_positive # insights[1].top_positive
    /\ insights0[1].avg_sentiment # insights[1].avg_sentiment

IsNumber(x) == x.t \in {"int", "float", "numstr"}

\* neither product_id nor id holds a number
IdMalformed(doc) == ~IsNumber(doc.product_id) /\ ~IsNumber(doc.id)

C11_ThresholdBoundary ==
    label # "none" =>
        /\ label = "positive" <=> compound >= 5
        /\ label = "negative" <=> compound <= -5
        /\ label = "neutral" <=> (-5 < compound /\ compound < 5)
        /\ compound = 5 => label = "positive"
        /\ compound = -5 => label = "negative"

\* the score exactly -0.05 has been labelled
C11_Witness == compound = -5 /\ label = "negative"

\* C12: the fetcher only appends to the raw store.  Every store_product call
\* that writes adds one new raw document and leaves every raw document that
\* exists as it is, under either strategy and also when the insert failed.
C12_FetcherOnlyAppends ==
    [][ScraperNext =>
          /\ Len(raw') = Len(raw) + 1
          /\ \A i \in 1..Len(raw) : raw'[i] = raw[i]]_vars

\* C13: the presentation API is read-only and reads only the processed
\* store.  No endpoint changes the raw, processed or insights collection, and
\* the response of every endpoint is one it may give on the same processed
\* store and insights when the raw store is empty: it does not depend on
\* what the raw store holds.
C13_ApiReadsProcessedOnly ==
    [][ApiNext =>
          /\ store' = store
          /\ response' \in Responses(request', <<>>, proc, insights)]_vars

RECURSIVE BatchScoreSum(_)
\* sum of the scores of the documents of b
BatchScoreSum(b) == IF b = <<>> THEN 0 ELSE Score(Head(b)) + BatchScoreSum(Tail(b))

HasId(col, id) == \E k \in 1..Len(col) : col[k]._id = id

\* a mark is attempted only on a record whose upsert has been done
UpsertBeforeMark ==
    (pc = "mark" /\ pc' = "loop") =>
        (idx \in upserted /\ WithPid(proc, pd.product_id) # {})

\* a failed mark leaves the raw record unconsumed and the record in all_proc,
\* and the snapshot of a cycle averages the scores of its whole batch
MarkFailureAggregated ==
    /\ (pc = "mark" /\ markFailed' # markFailed) =>
          /\ \A i \in 1..Len(raw') :
                raw'[i]._id = batch[idx]._id => raw'[i].processed # TrueV
          /\ all_proc' = Append(all_proc, pd)
    /\ (pc = "loop" /\ pc' = "ended" /\ wrote') =>
          insights'[1].avg_sentiment = Quotient(BatchScoreSum(batch), Len(batch))

C15_SelectFailureAbortsCleanly ==
    [][/\ (pc = "idle" /\ pc' # "idle" /\ pc' # "loop") =>
             (pc' = "ended" /\ outcome' = "aborted" /\ store' = store)
       /\ pc' # "crashed"
       /\ (pc = "ended" /\ pc' # "ended") => pc' = "idle"
       /\ pc = "idle" => ENABLED Select]_vars

\* a cycle was ended by a failure of its selection, with unconsumed records
\* and processed products in store
C15_Witness ==
    /\ pc = "ended" /\ outcome = "aborted" /\ failKind = "store" /\ failedAt = 0
    /\ Unprocessed(raw) # {}
    /\ proc # <<>> /\ insights # <<>>

\* C16: batch selection returns at most the batch limit of raw records, each
\* an unconsumed record of the raw store and none twice, in ascending order
\* of ingested_at, and they are the oldest: no unconsumed record left out has
\* a smaller ingested_at than a record of the batch.  Selection changes no
\* store.
C16_BatchOldestUnconsumed ==
    [][(pc = "idle" /\ pc' = "loop") =>
          /\ Len(batch') <= BatchLimit
          /\ \A k \in 1..Len(batch') : \E i \in Unprocessed(raw) : raw[i] = batch'[k]
          /\ \A a, b \in 1..Len(batch') : a < b =>
                /\ batch'[a]._id # batch'[b]._id
                /\ batch'[a].ingested_at.v <= batch'[b].ingested_at.v
          /\ \A i \in Unprocessed(raw) : ~HasId(batch', raw[i]._id) =>
                \A k \in 1..Len(batch') : batch'[k].ingested_at.v <= raw[i].ingested_at.v
          /\ store' = store]_vars

\* a full batch was selected from a store that holds a consumed record and
\* more unconsumed records than the limit, a younger one inserted before an
\* older one
C16_Witness ==
    /\ pc = "loop" /\ Len(batch) = BatchLimit
    /\ Cardinality(Unprocessed(raw)) > BatchLimit
    /\ \E i \in 1..Len(raw) : raw[i].processed = TrueV
    /\ \E i, j \in Unprocessed(raw) :
          i < j /\ raw[i].ingested_at.v > raw[j].ingested_at.v /\ HasId(batch, raw[j]._id)

\* C17: no step of the processor inserts or deletes a raw document or
\* changes a field of a raw document other than processed and processed_at.
C17_ProcessorTouchesOnlyMark ==
    [][ProcessorNext =>
          /\ Len(raw') = Len(raw)
          /\ \A i \in 1..Len(raw) :
                \A f \in DOMAIN raw[i] \ {"processed", "processed_at"} :
                    raw'[i][f] = raw[i][f]]_vars

\* two raw records were consumed, at different instants
C17_Witness ==
    \E i, j \in 1..Len(raw) :
        /\ raw[i].processed = TrueV /\ raw[j].processed = TrueV
        /\ raw[i].processed_at.v < raw[j].processed_at.v
        /\ raw[i].title # Absent /\ raw[j].title # Absent

\* the raw price is missing, null or a string that is not a number
PriceUnparsable(doc) == doc.price.t \in {"absent", "none", "str"}

\* C18: every processed product has price >= 0, and a raw record whose price
\* is missing or unparsable (its other fields sound) does not fail: in a
\* cycle that no store failure and no earlier record cut short it is
\* upserted with price 0.0.
C18_PriceNonNegative ==
    /\ \A i \in 1..Len(proc) : proc[i].price.v >= 0
    /\ \A k \in 1..Len(batch) :
          (/\ pc = "ended" /\ failKind # "store"
           /\ PriceUnparsable(batch[k])
           /\ ~NumRaises(PidArg(batch[k]))
           /\ ~TextRaises(batch[k])
           /\ RatingArg(batch[k]).t = "dict"
           /\ \A j \in 1..(k - 1) : ~TransformRaises(batch[j]))
          => (k \in upserted /\ all_proc[k].price = FloatV(0))

\* C19: when the fetcher has stopped and store operations succeed, every raw
\* record, whatever its fields and whatever precedes it, is eventually marked
\* consumed.
C19_EveryRecordEventuallyConsumed ==
    <>(\A i \in 1..Len(raw) : raw[i].processed = TrueV)

\* C20: in every reachable state, under any interleaving of processor steps
\* and scraper writes, every raw record marked consumed has a product id the
\* processor can read, and the processed store holds a product of that id.
C20_ConsumedHasProduct ==
    \A i \in 1..Len(raw) :
        raw[i].processed = TrueV =>
            /\ ~NumRaises(PidArg(raw[i]))
            /\ WithPid(proc, NumOf(PidArg(raw[i]))) # {}

\* a record of the batch under way is consumed, and the scraper has
\* overwritten it since the batch was selected
C20_Witness ==
    /\ pc \in {"loop", "mark"}
    /\ \E k \in 1..Len(batch) : \E i \in 1..Len(raw) :
          /\ raw[i]._id = batch[k]._id
          /\ raw[i].processed = TrueV
          /\ raw[i].ingested_at # batch[k].ingested_at
          /\ raw[i].title # batch[k].title

====
